---- MODULE Spec2Model ----
(***************************************************************************)
(* Model of PythonAPI/docs/bp_doc_gen.py: the MarkdownFile text            *)
(* accumulator and the blueprint documentation generator                   *)
(* (generate_pb_docs, main).                                               *)
(*                                                                         *)
(* A Python str is modelled as a sequence of one-character strings, so     *)
(* that concatenation, strip(), split('.') and the lexicographic order of  *)
(* sorted() are computed character by character.  A dict is modelled as    *)
(* the sequence of its (key, value) pairs in insertion order, which is the *)
(* iteration order of a Python 3.7+ dict.                                  *)
(***************************************************************************)
EXTENDS Integers, Sequences, FiniteSets, TLC

(***************************************************************************)
(* Bounds of the model.                                                    *)
(***************************************************************************)
\* SpecMd: list_push is not called beyond this depth
MaxDepth == 3
\* SpecMd: no further call once the buffer is longer than this
MaxData == 6
\* Spec: longest blueprint identifier the provider returns
MaxIdLen == 2
\* Spec: most blueprints in the provider's library
MaxBlueprints == 2
\* Spec: most attributes of a blueprint
MaxAttrs == 2

(***************************************************************************)
(* Strings.                                                                *)
(***************************************************************************)
\* join(elem, separator=''): every caller uses the default separator
RECURSIVE join(_)
join(elem) ==
    IF elem = <<>> THEN <<>> ELSE Head(elem) \o join(Tail(elem))

\* s * n on a str
RECURSIVE StrTimes(_, _)
StrTimes(s, n) ==
    IF n <= 0 THEN <<>> ELSE s \o StrTimes(s, n - 1)

\* the characters str.strip() removes (those of them the model's texts use)
Whitespace == {" ", "\n", "\t", "\r"}

RECURSIVE lstrip(_)
lstrip(s) ==
    IF s # <<>> /\ Head(s) \in Whitespace THEN lstrip(Tail(s)) ELSE s

RECURSIVE rstrip(_)
rstrip(s) ==
    IF s # <<>> /\ s[Len(s)] \in Whitespace
    THEN rstrip(SubSeq(s, 1, Len(s) - 1))
    ELSE s

\* str.strip()
strip(s) == rstrip(lstrip(s))

\* s[-1:]
LastSlice(s) == IF s = <<>> THEN <<>> ELSE <<s[Len(s)]>>

Letters ==
    <<"a", "b", "c", "d", "e", "f", "g", "h", "i", "j", "k", "l", "m",
      "n", "o", "p", "q", "r", "s", "t", "u", "v", "w", "x", "y", "z">>

\* code point of a character of an identifier
ord(c) ==
    IF c = "-" THEN 45
    ELSE IF c = "." THEN 46
    ELSE IF c = "_" THEN 95
    ELSE 96 + (CHOOSE i \in 1..26 : Letters[i] = c)

\* a < b on two str: lexicographic by code point, a proper prefix is smaller
RECURSIVE StrLess(_, _)
StrLess(a, b) ==
    IF b = <<>> THEN FALSE
    ELSE IF a = <<>> THEN TRUE
    ELSE IF Head(a) # Head(b) THEN ord(Head(a)) < ord(Head(b))
    ELSE StrLess(Tail(a), Tail(b))

StrLeq(a, b) == a = b \/ StrLess(a, b)

\* the character U+0060 (a TLA+ string literal cannot hold it)
GRAVE == "U+0060"

COLOR_LIST == <<"#", "4", "9", "8", "e", "f", "c">>

color(col, buf) ==
    join(<< <<"<", "f", "o", "n", "t", " ", "c", "o", "l", "o", "r", "=", "\"">>,
            col, <<"\"", ">">>, buf, <<"<", "/", "f", "o", "n", "t", ">">> >>)

italic(buf) == join(<< <<"_">>, buf, <<"_">> >>)

bold(buf) == join(<< <<"*", "*">>, buf, <<"*", "*">> >>)

parentheses(buf) == join(<< <<"(">>, buf, <<")">> >>)

sub(buf) == join(<< <<"<", "s", "u", "b", ">">>, buf, <<"<", "/", "s", "u", "b", ">">> >>)

\* code without the fixed-width marks
code_plain(buf) == buf

code(buf) == join(<< <<GRAVE>>, buf, <<GRAVE>> >>)

(***************************************************************************)
(* class MarkdownFile.  An instance is the record [data, depth] of its     *)
(* fields _data and _list_depth; endl is the same for every instance.      *)
(***************************************************************************)
endl == <<" ", " ", "\n">>

\* MarkdownFile.__init__
MarkdownFile == [data |-> <<>>, depth |-> 0]

\* MarkdownFile.data
data(m) == m.data

\* MarkdownFile.text
text(m, buf) == [m EXCEPT !.data = join(<<m.data, buf>>)]

\* list_push without the indentation of the current depth
list_push_unindented(m, buf) ==
    [(IF buf # <<>> THEN text(m, join(<< <<"-", " ">>, buf >>)) ELSE m)
        EXCEPT !.depth = m.depth + 1]

\* MarkdownFile.list_push
list_push(m, buf) ==
    [(IF buf # <<>>
      THEN text(m, join(<<IF m.depth # 0
                          THEN StrTimes(<<" ", " ", " ", " ">>, m.depth)
                          ELSE <<>>,
                          <<"-", " ">>, buf>>))
      ELSE m)
        EXCEPT !.depth = m.depth + 1]

\* MarkdownFile.list_pushn
list_pushn(m, buf) == list_push(m, join(<<buf, endl>>))

\* list_pop without the floor at zero
list_pop_unclamped(m) == [m EXCEPT !.depth = m.depth - 1]

\* MarkdownFile.list_pop
list_pop(m) ==
    [m EXCEPT !.depth = IF m.depth - 1 > 0 THEN m.depth - 1 ELSE 0]

\* MarkdownFile.list_popn
list_popn(m) ==
    LET p == list_pop(m) IN [p EXCEPT !.data = join(<<p.data, <<"\n">> >>)]

\* MarkdownFile.list_depth
list_depth(m) ==
    IF LastSlice(strip(m.data)) # <<"\n">> \/ m.depth = 0
    THEN <<>>
    ELSE join(<<StrTimes(<<" ", " ", " ", " ">>, m.depth)>>)

\* MarkdownFile.textn
textn(m, buf) ==
    [m EXCEPT !.data = join(<<m.data, list_depth(m), buf, endl>>)]

\* MarkdownFile.not_title
not_title(m, buf) ==
    [m EXCEPT !.data = join(<<m.data, <<"\n">>, list_depth(m), <<"#">>, buf, <<"\n">> >>)]

\* MarkdownFile.title
title(m, strongness, buf) ==
    [m EXCEPT !.data = join(<<m.data, <<"\n">>, list_depth(m),
                              StrTimes(<<"#">>, strongness), <<" ">>, buf, <<"\n">> >>)]

\* MarkdownFile.new_line
new_line(m) == [m EXCEPT !.data = join(<<m.data, endl>>)]

\* MarkdownFile.code_block: returns the block, appends nothing
code_block(m, buf, language) ==
    join(<< <<GRAVE, GRAVE, GRAVE>>, language, <<"\n">>, list_depth(m), buf, <<"\n">>,
            list_depth(m), <<GRAVE, GRAVE, GRAVE, "\n">> >>)

(***************************************************************************)
(* The fixed texts of the introduction (lines 198-214).                    *)
(***************************************************************************)
BlueprintLibraryTitle ==
    <<
    "B", "l", "u", "e", "p", "r", "i", "n", "t", " ", "L", "i", "b", "r", "a", "r", "y"
    >>

IntroText ==
    <<
    "T", "h", "e", " ", "B", "l", "u", "e", "p", "r", "i", "n", "t", " ", "L", "i", "b", "r",
    "a", "r", "y", " ", "(", "[", GRAVE, "c", "a", "r", "l", "a", ".", "B", "l", "u", "e", "p",
    "r", "i", "n", "t", "L", "i", "b", "r", "a", "r", "y", GRAVE, "]", "(", ".", ".", "/", "p",
    "y", "t", "h", "o", "n", "_", "a", "p", "i", "/", "#", "c", "a", "r", "l", "a", "b", "l",
    "u", "e", "p", "r", "i", "n", "t", "l", "i", "b", "r", "a", "r", "y", "-", "c", "l", "a",
    "s", "s", ")", ")", " ", "i", "s", " ", "a", " ", "s", "u", "m", "m", "a", "r", "y", " ",
    "o", "f", " ", "a", "l", "l", " ", "[", GRAVE, "c", "a", "r", "l", "a", ".", "A", "c", "t",
    "o", "r", "B", "l", "u", "e", "p", "r", "i", "n", "t", GRAVE, "]", "(", ".", ".", "/", "p",
    "y", "t", "h", "o", "n", "_", "a", "p", "i", "/", "#", "c", "a", "r", "l", "a", ".", "A",
    "c", "t", "o", "r", "B", "l", "u", "e", "p", "r", "i", "n", "t", ")", " ", "a", "n", "d",
    " ", "i", "t", "s", " ", "a", "t", "t", "r", "i", "b", "u", "t", "e", "s", " ", "(", "[",
    GRAVE, "c", "a", "r", "l", "a", ".", "A", "c", "t", "o", "r", "A", "t", "t", "r", "i", "b",
    "u", "t", "e", GRAVE, "]", "(", ".", ".", "/", "p", "y", "t", "h", "o", "n", "_", "a", "p",
    "i", "/", "#", "c", "a", "r", "l", "a", ".", "A", "c", "t", "o", "r", "A", "t", "t", "r",
    "i", "b", "u", "t", "e", ")", ")", " ", "a", "v", "a", "i", "l", "a", "b", "l", "e", " ",
    "t", "o", " ", "t", "h", "e", " ", "u", "s", "e", "r", " ", "i", "n", " ", "C", "A", "R",
    "L", "A", "."
    >>

ExampleIntroText ==
    <<
    "\n", "H", "e", "r", "e", " ", "i", "s", " ", "a", "n", " ", "e", "x", "a", "m", "p", "l",
    "e", " ", "c", "o", "d", "e", " ", "f", "o", "r", " ", "p", "r", "i", "n", "t", "i", "n",
    "g", " ", "a", "l", "l", " ", "a", "c", "t", "o", "r", " ", "b", "l", "u", "e", "p", "r",
    "i", "n", "t", "s", " ", "a", "n", "d", " ", "t", "h", "e", "i", "r", " ", "a", "t", "t",
    "r", "i", "b", "u", "t", "e", "s", ":"
    >>

ExampleCode ==
    <<
    "b", "l", "u", "e", "p", "r", "i", "n", "t", "s", " ", "=", " ", "[", "b", "p", " ", "f",
    "o", "r", " ", "b", "p", " ", "i", "n", " ", "w", "o", "r", "l", "d", ".", "g", "e", "t",
    "_", "b", "l", "u", "e", "p", "r", "i", "n", "t", "_", "l", "i", "b", "r", "a", "r", "y",
    "(", ")", ".", "f", "i", "l", "t", "e", "r", "(", "'", "*", "'", ")", "]", "\n", "f", "o",
    "r", " ", "b", "l", "u", "e", "p", "r", "i", "n", "t", " ", "i", "n", " ", "b", "l", "u",
    "e", "p", "r", "i", "n", "t", "s", ":", "\n", " ", " ", " ", "p", "r", "i", "n", "t", "(",
    "b", "l", "u", "e", "p", "r", "i", "n", "t", ".", "i", "d", ")", "\n", " ", " ", " ", "f",
    "o", "r", " ", "a", "t", "t", "r", " ", "i", "n", " ", "b", "l", "u", "e", "p", "r", "i",
    "n", "t", ":", "\n", " ", " ", " ", " ", " ", " ", " ", "p", "r", "i", "n", "t", "(", "'",
    " ", " ", "-", " ", "{", "}", "'", ".", "f", "o", "r", "m", "a", "t", "(", "a", "t", "t",
    "r", ")", ")"
    >>

CheckOutText ==
    <<
    "C", "h", "e", "c", "k", " ", "o", "u", "t", " ", "t", "h", "e", " ", "[", "i", "n", "t",
    "r", "o", "d", "u", "c", "t", "i", "o", "n", " ", "t", "o", " ", "b", "l", "u", "e", "p",
    "r", "i", "n", "t", "s", "]", "(", "c", "o", "r", "e", "_", "a", "c", "t", "o", "r", "s",
    ".", "m", "d", ")", "."
    >>

VARIABLES
    md,             \* the MarkdownFile instance: [data, depth]
    call,           \* SpecMd: the latest method call: [name, buf, pre, ret]
    pc,             \* Spec: position of the script / main / generate_pb_docs
    library,        \* Spec: the blueprint library of the simulator
    blueprints,     \* generate_pb_docs: blueprints
    blueprint_ids,  \* generate_pb_docs: blueprint_ids
    bp_dict,        \* generate_pb_docs: bp_dict, pairs in insertion order
    scan,           \* generate_pb_docs: what is left of sorted(blueprint_ids)
    items,          \* generate_pb_docs: what is left of bp_dict.items()
    bps,            \* generate_pb_docs: what is left of sorted(value)
    attrs,          \* generate_pb_docs: what is left of sorted(bp[1], key=id)
    emitted,        \* history: the list entries and headings emitted so far
    docs,           \* main: docs
    file,           \* contents of ../../Docs/bp_library.md
    stdout,         \* lines printed so far
    exception,      \* the exception raised, or "none"
    exit_status     \* <<status>> once the process has ended, <<>> before

vars ==
    <<md, call, pc, library, blueprints, blueprint_ids, bp_dict, scan, items,
      bps, attrs, emitted, docs, file, stdout, exception, exit_status>>

genVars ==
    <<pc, library, blueprints, blueprint_ids, bp_dict, scan, items, bps, attrs,
      emitted, docs, file, stdout, exception, exit_status>>

\* the file as the previous run left it
OldFile == <<"o", "l", "d">>

NoCall == [name |-> "none", buf |-> <<>>, pre |-> MarkdownFile, ret |-> <<>>]

(***************************************************************************)
(* SpecMd: a fresh MarkdownFile and any sequence of calls of its methods.  *)
(***************************************************************************)
\* texts handed to the methods
Bufs == {<<>>, <<"a">>, <<"a", "\n">>}

\* heading levels handed to title
Strongnesses == {1, 3}

\* language tags handed to code_block
Languages == {<<>>, <<"p", "y">>}

InitMd ==
    /\ md = MarkdownFile
    /\ call = NoCall
    /\ pc = "md"
    /\ library = <<>>
    /\ blueprints = <<>>
    /\ blueprint_ids = <<>>
    /\ bp_dict = <<>>
    /\ scan = <<>>
    /\ items = <<>>
    /\ bps = <<>>
    /\ attrs = <<>>
    /\ emitted = <<>>
    /\ docs = <<>>
    /\ file = OldFile
    /\ stdout = <<>>
    /\ exception = "none"
    /\ exit_status = <<>>

MayCall == Len(md.data) <= MaxData

Call_list_push ==
    /\ MayCall
    /\ md.depth < MaxDepth
    /\ \E buf \in Bufs :
        /\ md' = list_push(md, buf)
        /\ call' = [name |-> "list_push", buf |-> buf, pre |-> md, ret |-> <<>>]
    /\ UNCHANGED genVars

Call_list_pushn ==
    /\ MayCall
    /\ md.depth < MaxDepth
    /\ \E buf \in Bufs :
        /\ md' = list_pushn(md, buf)
        /\ call' = [name |-> "list_pushn", buf |-> buf, pre |-> md, ret |-> <<>>]
    /\ UNCHANGED genVars

Call_list_pop ==
    /\ MayCall
    /\ md' = list_pop(md)
    /\ call' = [name |-> "list_pop", buf |-> <<>>, pre |-> md, ret |-> <<>>]
    /\ UNCHANGED genVars

Call_list_popn ==
    /\ MayCall
    /\ md' = list_popn(md)
    /\ call' = [name |-> "list_popn", buf |-> <<>>, pre |-> md, ret |-> <<>>]
    /\ UNCHANGED genVars

Call_text ==
    /\ MayCall
    /\ \E buf \in Bufs :
        /\ md' = text(md, buf)
        /\ call' = [name |-> "text", buf |-> buf, pre |-> md, ret |-> <<>>]
    /\ UNCHANGED genVars

Call_textn ==
    /\ MayCall
    /\ \E buf \in Bufs :
        /\ md' = textn(md, buf)
        /\ call' = [name |-> "textn", buf |-> buf, pre |-> md, ret |-> <<>>]
    /\ UNCHANGED genVars

Call_not_title ==
    /\ MayCall
    /\ \E buf \in Bufs :
        /\ md' = not_title(md, buf)
        /\ call' = [name |-> "not_title", buf |-> buf, pre |-> md, ret |-> <<>>]
    /\ UNCHANGED genVars

Call_title ==
    /\ MayCall
    /\ \E buf \in Bufs, strongness \in Strongnesses :
        /\ md' = title(md, strongness, buf)
        /\ call' = [name |-> "title", buf |-> buf, pre |-> md, ret |-> <<>>]
    /\ UNCHANGED genVars

Call_new_line ==
    /\ MayCall
    /\ md' = new_line(md)
    /\ call' = [name |-> "new_line", buf |-> <<>>, pre |-> md, ret |-> <<>>]
    /\ UNCHANGED genVars

Call_code_block ==
    /\ MayCall
    /\ \E buf \in Bufs, language \in Languages :
        /\ md' = md
        /\ call' = [name |-> "code_block", buf |-> buf, pre |-> md,
                    ret |-> code_block(md, buf, language)]
    /\ UNCHANGED genVars

Call_data ==
    /\ MayCall
    /\ md' = md
    /\ call' = [name |-> "data", buf |-> <<>>, pre |-> md, ret |-> data(md)]
    /\ UNCHANGED genVars

NextMd ==
    \/ Call_list_push
    \/ Call_list_pushn
    \/ Call_list_pop
    \/ Call_list_popn
    \/ Call_text
    \/ Call_textn
    \/ Call_not_title
    \/ Call_title
    \/ Call_new_line
    \/ Call_code_block
    \/ Call_data

SpecMd == InitMd /\ [][NextMd]_vars

(***************************************************************************)
(* Spec: the script.  The simulator's blueprint library is any sequence of *)
(* blueprints with distinct identifiers; a blueprint is [id, attrs] and an *)
(* attribute [id, type, is_modifiable], type being the text str() gives.   *)
(***************************************************************************)
\* characters of the identifiers the provider returns: the delimiter and
\* one that sorts before it
IdChars == {"-", "."}

Ids == UNION {[1..n -> IdChars] : n \in 1..MaxIdLen}

vehicle_car == <<"v", "e", "h", "i", "c", "l", "e", ".", "c", "a", "r">>

walker_person == <<"w", "a", "l", "k", "e", "r", ".", "p", "e", "r", "s", "o", "n">>

AttrIds == {<<"c", "o", "l", "o", "r">>, <<"s", "p", "e", "e", "d">>}

AttrTypes == {<<"s", "t", "r", "i", "n", "g">>, <<"f", "l", "o", "a", "t">>}

Attributes == [id : AttrIds, type : AttrTypes, is_modifiable : BOOLEAN]

AttrLists == UNION {[1..n -> Attributes] : n \in 0..MaxAttrs}

speed_float ==
    [id |-> <<"s", "p", "e", "e", "d">>, type |-> <<"f", "l", "o", "a", "t">>,
     is_modifiable |-> TRUE]

color_string ==
    [id |-> <<"c", "o", "l", "o", "r">>, type |-> <<"s", "t", "r", "i", "n", "g">>,
     is_modifiable |-> FALSE]

\* libraries of blueprints without attributes, any identifiers in any order
IdLibraries ==
    UNION {{[i \in 1..n |-> [id |-> ids[i], attrs |-> <<>>]] :
              ids \in {s \in [1..n -> Ids] : \A i, j \in 1..n : i # j => s[i] # s[j]}} :
           n \in 0..MaxBlueprints}

\* the two blueprints of the documented example, in either order, the
\* first with any attribute list
AttrLibraries ==
    UNION {{<<[id |-> vehicle_car, attrs |-> a], [id |-> walker_person, attrs |-> <<speed_float>>]>>,
            <<[id |-> walker_person, attrs |-> <<speed_float>>], [id |-> vehicle_car, attrs |-> a]>>} :
           a \in AttrLists}

Libraries == IdLibraries \cup AttrLibraries

Init ==
    /\ md = MarkdownFile
    /\ call = NoCall
    /\ pc = "import"
    /\ library \in Libraries
    /\ blueprints = <<>>
    /\ blueprint_ids = <<>>
    /\ bp_dict = <<>>
    /\ scan = <<>>
    /\ items = <<>>
    /\ bps = <<>>
    /\ attrs = <<>>
    /\ emitted = <<>>
    /\ docs = <<>>
    /\ file = OldFile
    /\ stdout = <<>>
    /\ exception = "none"
    /\ exit_status = <<>>

\* a sys.exit that returns to its caller, which goes on after the handler
sys_exit_returns(status) == [pc |-> "write", exit_status |-> <<>>]

\* sys.exit(status)
sys_exit(status) == [pc |-> "exited", exit_status |-> <<status>>]

\* an exception nothing catches: traceback, exit status 1
Uncaught == [pc |-> "crashed", exit_status |-> <<1>>]

\* lines 17-35: the carla egg is found and carla imported
FindEgg ==
    /\ pc = "import"
    /\ pc' = "main"
    /\ UNCHANGED <<md, call, library, blueprints, blueprint_ids, bp_dict, scan,
                   items, bps, attrs, emitted, docs, file, stdout, exception,
                   exit_status>>

\* lines 27-35: glob finds no egg, IndexError, the script gives up
EggMissing ==
    /\ pc = "import"
    /\ stdout' = stdout \o <<"[ERROR] Could not find egg",
                             "Blueprint library docs will not be generated",
                             "Make sure the python client is compiled!">>
    /\ pc' = sys_exit(0).pc
    /\ exit_status' = sys_exit(0).exit_status
    /\ UNCHANGED <<md, call, library, blueprints, blueprint_ids, bp_dict, scan,
                   items, bps, attrs, emitted, docs, file, exception>>

\* main, line 235-237: enters the try and calls generate_pb_docs (line 173)
MainStart ==
    /\ pc = "main"
    /\ stdout' = stdout \o <<"Generating API blueprint documentation...">>
    /\ pc' = "connect"
    /\ UNCHANGED <<md, call, library, blueprints, blueprint_ids, bp_dict, scan,
                   items, bps, attrs, emitted, docs, file, exception, exit_status>>

\* carla.Client('127.0.0.1', 2000); client.set_timeout(2.0)
Connect ==
    /\ pc = "connect"
    /\ pc' = "get_world"
    /\ UNCHANGED <<md, call, library, blueprints, blueprint_ids, bp_dict, scan,
                   items, bps, attrs, emitted, docs, file, stdout, exception,
                   exit_status>>

\* world = client.get_world()
GetWorld ==
    /\ pc = "get_world"
    /\ pc' = "query_blueprints"
    /\ UNCHANGED <<md, call, library, blueprints, blueprint_ids, bp_dict, scan,
                   items, bps, attrs, emitted, docs, file, stdout, exception,
                   exit_status>>

\* bp_dict = {}; blueprints = [bp for bp in ...filter('*')]
QueryBlueprints ==
    /\ pc = "query_blueprints"
    /\ bp_dict' = <<>>
    /\ blueprints' = library
    /\ pc' = "query_ids"
    /\ UNCHANGED <<md, call, library, blueprint_ids, scan, items, bps, attrs,
                   emitted, docs, file, stdout, exception, exit_status>>

\* the stable sort of (key, item) pairs by key that sorted() performs
RECURSIVE InsertByKey(_, _)
InsertByKey(p, s) ==
    IF s = <<>> THEN <<p>>
    ELSE IF StrLess(p[1], Head(s)[1]) THEN <<p>> \o s
    ELSE <<Head(s)>> \o InsertByKey(p, Tail(s))

RECURSIVE SortByKey(_)
SortByKey(s) ==
    IF s = <<>> THEN <<>>
    ELSE InsertByKey(s[Len(s)], SortByKey(SubSeq(s, 1, Len(s) - 1)))

Items(pairs) == [i \in 1..Len(pairs) |-> pairs[i][2]]

\* the identifiers in the order the provider gave them
no_sort(ids) == ids

\* sorted(blueprint_ids)
sorted_ids(ids) == Items(SortByKey([i \in 1..Len(ids) |-> <<ids[i], ids[i]>>]))

\* sorted(value): the [bp_id, bp] lists compare by bp_id first
sorted_value(value) ==
    Items(SortByKey([i \in 1..Len(value) |-> <<value[i][1], value[i]>>]))

\* the attributes in the order the blueprint holds them
unsorted_attrs(bp) == bp.attrs

\* sorted(bp[1], key=lambda x: x.id)
sorted_attrs(bp) ==
    Items(SortByKey([i \in 1..Len(bp.attrs) |-> <<bp.attrs[i].id, bp.attrs[i]>>]))

\* blueprint_ids = [bp.id for bp in ...filter('*')], start of the for loop
QueryIds ==
    /\ pc = "query_ids"
    /\ blueprint_ids' = [i \in 1..Len(library) |-> library[i].id]
    /\ scan' = sorted_ids(blueprint_ids')
    /\ pc' = "group"
    /\ UNCHANGED <<md, call, library, blueprints, bp_dict, items, bps, attrs,
                   emitted, docs, file, stdout, exception, exit_status>>

\* a handler that matches no exception
main_except_none(exc) == FALSE

\* except RuntimeError: the exceptions main's handler catches
main_except(exc) == exc = "RuntimeError"

\* the provider cannot be reached or times out: the client raises
\* RuntimeError inside the try of main
ProviderFault ==
    /\ pc \in {"connect", "get_world", "query_blueprints", "query_ids"}
    /\ exception' = "RuntimeError"
    /\ pc' = IF main_except("RuntimeError") THEN "except" ELSE "unhandled"
    /\ UNCHANGED <<md, call, library, blueprints, blueprint_ids, bp_dict, scan,
                   items, bps, attrs, emitted, docs, file, stdout, exit_status>>

\* lines 238-244
MainExcept ==
    /\ pc = "except"
    /\ stdout' = stdout \o <<"[ERROR] Can't establish connection with the simulator",
                             "Make sure the simulator is connected!">>
    /\ pc' = sys_exit(0).pc
    /\ exit_status' = sys_exit(0).exit_status
    /\ UNCHANGED <<md, call, library, blueprints, blueprint_ids, bp_dict, scan,
                   items, bps, attrs, emitted, docs, file, exception>>

\* bp_id.split('.')[0]
RECURSIVE split_first(_)
split_first(bp_id) ==
    IF bp_id = <<>> \/ Head(bp_id) = "." THEN <<>>
    ELSE <<Head(bp_id)>> \o split_first(Tail(bp_id))

\* lines 187-190: value after the inner loop over blueprints
RECURSIVE find_value(_, _, _)
find_value(bp_id, bs, value) ==
    IF bs = <<>> THEN value
    ELSE find_value(bp_id, Tail(bs),
                    IF Head(bs).id = bp_id THEN <<bp_id, Head(bs)>> ELSE value)

\* bp_type in bp_dict
dict_has(d, key) == \E i \in 1..Len(d) : d[i].key = key

\* bp_dict[bp_type] = [value] whether or not the key is there
dict_overwrite(d, key, value) ==
    IF dict_has(d, key)
    THEN [i \in 1..Len(d) |->
            IF d[i].key = key THEN [d[i] EXCEPT !.value = <<value>>] ELSE d[i]]
    ELSE Append(d, [key |-> key, value |-> <<value>>])

\* lines 191-194
dict_add(d, key, value) ==
    IF dict_has(d, key)
    THEN [i \in 1..Len(d) |->
            IF d[i].key = key
            THEN [d[i] EXCEPT !.value = Append(d[i].value, value)]
            ELSE d[i]]
    ELSE Append(d, [key |-> key, value |-> <<value>>])

\* one iteration of: for bp_id in sorted(blueprint_ids)
Group ==
    /\ pc = "group"
    /\ scan # <<>>
    /\ LET bp_id == Head(scan)
           bp_type == split_first(bp_id)
           value == find_value(bp_id, blueprints, <<>>)
       IN bp_dict' = dict_add(bp_dict, bp_type, value)
    /\ scan' = Tail(scan)
    /\ UNCHANGED <<md, call, pc, library, blueprints, blueprint_ids, items, bps,
                   attrs, emitted, docs, file, stdout, exception, exit_status>>

\* lines 197-214: md = MarkdownFile() and the fixed introduction
Preamble ==
    /\ pc = "group"
    /\ scan = <<>>
    /\ LET m1 == not_title(MarkdownFile, BlueprintLibraryTitle)
           m2 == textn(m1, IntroText)
           m3 == textn(m2, ExampleIntroText)
           m4 == textn(m3, code_block(m3, ExampleCode, <<"p", "y">>))
       IN md' = textn(m4, CheckOutText)
    /\ items' = bp_dict
    /\ pc' = "category"
    /\ UNCHANGED <<call, library, blueprints, blueprint_ids, bp_dict, scan, bps,
                   attrs, emitted, docs, file, stdout, exception, exit_status>>

Emit(kind, id, depth) == [kind |-> kind, id |-> id, depth |-> depth]

\* lines 217-219: next category, its heading
Category ==
    /\ pc = "category"
    /\ items # <<>>
    /\ LET key == Head(items).key
           value == Head(items).value
       IN /\ md' = title(md, 3, key)
          /\ bps' = sorted_value(value)
          /\ emitted' = Append(emitted, Emit("title", key, md.depth))
    /\ items' = Tail(items)
    /\ pc' = "blueprint"
    /\ UNCHANGED <<call, library, blueprints, blueprint_ids, bp_dict, scan, attrs,
                   docs, file, stdout, exception, exit_status>>

AttributesLabel == <<"A", "t", "t", "r", "i", "b", "u", "t", "e", "s", ":">>

\* lines 219-222: next blueprint of the category, its entry and label
Blueprint ==
    /\ pc = "blueprint"
    /\ bps # <<>>
    /\ LET bp == Head(bps)
           m1 == list_pushn(md, bold(color(COLOR_LIST, bp[1])))
       IN /\ md' = list_push(m1, bold(AttributesLabel) \o <<"\n">>)
          /\ attrs' = sorted_attrs(bp[2])
          /\ emitted' = emitted \o <<Emit("blueprint", bp[1], md.depth),
                                     Emit("label", bp[1], m1.depth)>>
    /\ bps' = Tail(bps)
    /\ pc' = "attribute"
    /\ UNCHANGED <<call, library, blueprints, blueprint_ids, bp_dict, scan, items,
                   docs, file, stdout, exception, exit_status>>

ModifiableLabel == <<"-", " ", "M", "o", "d", "i", "f", "i", "a", "b", "l", "e">>

\* lines 222-227: next attribute of the blueprint
Attribute ==
    /\ pc = "attribute"
    /\ attrs # <<>>
    /\ LET attr == Head(attrs)
           m1 == list_push(md, code(attr.id))
           m2 == text(m1, <<" ">> \o parentheses(italic(attr.type)))
           m3 == IF attr.is_modifiable
                 THEN text(m2, <<" ">> \o sub(italic(ModifiableLabel)))
                 ELSE m2
       IN /\ md' = list_popn(m3)
          /\ emitted' = Append(emitted, Emit("attribute", attr.id, md.depth))
    /\ attrs' = Tail(attrs)
    /\ UNCHANGED <<call, pc, library, blueprints, blueprint_ids, bp_dict, scan,
                   items, bps, docs, file, stdout, exception, exit_status>>

\* lines 228-229: the attributes are done
AttributesEnd ==
    /\ pc = "attribute"
    /\ attrs = <<>>
    /\ md' = list_pop(list_pop(md))
    /\ pc' = "blueprint"
    /\ UNCHANGED <<call, library, blueprints, blueprint_ids, bp_dict, scan, items,
                   bps, attrs, emitted, docs, file, stdout, exception, exit_status>>

\* line 230: the blueprints of the category are done
BlueprintsEnd ==
    /\ pc = "blueprint"
    /\ bps = <<>>
    /\ md' = list_pop(md)
    /\ pc' = "category"
    /\ UNCHANGED <<call, library, blueprints, blueprint_ids, bp_dict, scan, items,
                   bps, attrs, emitted, docs, file, stdout, exception, exit_status>>

\* line 231 and 237: return md.data(), docs = ...
Return ==
    /\ pc = "category"
    /\ items = <<>>
    /\ docs' = data(md)
    /\ emitted' = Append(emitted, Emit("return", <<>>, md.depth))
    /\ pc' = "write"
    /\ UNCHANGED <<md, call, library, blueprints, blueprint_ids, bp_dict, scan,
                   items, bps, attrs, file, stdout, exception, exit_status>>

\* lines 246-247: the file is opened for writing and docs written
WriteFile ==
    /\ pc = "write"
    /\ file' = docs
    /\ pc' = "print_done"
    /\ UNCHANGED <<md, call, library, blueprints, blueprint_ids, bp_dict, scan,
                   items, bps, attrs, emitted, docs, stdout, exception, exit_status>>

\* line 246: open() fails (no Docs directory, no permission); outside the try
OpenFault ==
    /\ pc = "write"
    /\ exception' = "OSError"
    /\ pc' = "unhandled"
    /\ UNCHANGED <<md, call, library, blueprints, blueprint_ids, bp_dict, scan,
                   items, bps, attrs, emitted, docs, file, stdout, exit_status>>

\* no handler: the interpreter prints the traceback and exits with 1
Unhandled ==
    /\ pc = "unhandled"
    /\ stdout' = Append(stdout, "Traceback (most recent call last):")
    /\ pc' = Uncaught.pc
    /\ exit_status' = Uncaught.exit_status
    /\ UNCHANGED <<md, call, library, blueprints, blueprint_ids, bp_dict, scan,
                   items, bps, attrs, emitted, docs, file, exception>>

\* line 248, then the script ends
PrintDone ==
    /\ pc = "print_done"
    /\ stdout' = Append(stdout, "Done!")
    /\ pc' = "done"
    /\ exit_status' = <<0>>
    /\ UNCHANGED <<md, call, library, blueprints, blueprint_ids, bp_dict, scan,
                   items, bps, attrs, emitted, docs, file, exception>>

Next ==
    \/ FindEgg
    \/ EggMissing
    \/ MainStart
    \/ Connect
    \/ GetWorld
    \/ QueryBlueprints
    \/ QueryIds
    \/ ProviderFault
    \/ MainExcept
    \/ Group
    \/ Preamble
    \/ Category
    \/ Blueprint
    \/ Attribute
    \/ AttributesEnd
    \/ BlueprintsEnd
    \/ Return
    \/ WriteFile
    \/ OpenFault
    \/ Unhandled
    \/ PrintDone

Spec == Init /\ [][Next]_vars

(***************************************************************************)
(* Operators the properties are stated with.                               *)
(***************************************************************************)
Spaces(n) == [i \in 1..n |-> " "]

EndsWithLineBreak(s) == s # <<>> /\ s[Len(s)] = "\n"

\* the substring of id before its first '.', all of id when it has none
CategoryOf(id) ==
    LET dots == {i \in 1..Len(id) : id[i] = "."}
    IN  IF dots = {} THEN id
        ELSE SubSeq(id, 1, (CHOOSE i \in dots : \A j \in dots : i <= j) - 1)

OccursAt(pat, s, i) ==
    /\ i >= 1
    /\ i + Len(pat) - 1 <= Len(s)
    /\ \A k \in 1..Len(pat) : s[i + k - 1] = pat[k]

Positions(pat, s) == {i \in 1..Len(s) : OccursAt(pat, s, i)}

\* the places <<i, j>> of bp_dict: the j-th pair of the i-th category
Flattened ==
    UNION {{<<i, j>> : j \in 1..Len(bp_dict[i].value)} : i \in 1..Len(bp_dict)}

Grouped ==
    \/ pc = "group" /\ scan = <<>>
    \/ pc \in {"category", "blueprint", "attribute", "write", "print_done", "done"}

LibraryIds == {library[i].id : i \in 1..Len(library)}

EmittedOf(kind) == {i \in 1..Len(emitted) : emitted[i].kind = kind}

ConnectionDiagnostic == "[ERROR] Can't establish connection with the simulator"

Printed(line) == \E i \in 1..Len(stdout) : stdout[i] = line

(***************************************************************************)
(* C1 (SpecMd): after any sequence of MarkdownFile calls the depth is      *)
(* never negative; list_pop at depth 0 leaves it 0 and at depth d > 0      *)
(* leaves it d - 1.                                                        *)
(***************************************************************************)
C1_DepthNeverNegative ==
    /\ md.depth >= 0
    /\ call.name = "list_pop" =>
        /\ call.pre.depth = 0 => md.depth = 0
        /\ call.pre.depth > 0 => md.depth = call.pre.depth - 1

C1_Witness ==
    /\ call.name = "list_pop"
    /\ call.pre.depth = 0
    /\ call.pre.data # <<>>

(***************************************************************************)
(* C5 (SpecMd): textn(buf) appends the indentation, buf and a line break,  *)
(* the indentation being 4 * depth spaces when the buffer ends with a line *)
(* break and depth > 0 and empty otherwise.                                *)
(***************************************************************************)
C5_TextnIndents ==
    call.name = "textn" =>
        md.data = call.pre.data
                  \o (IF EndsWithLineBreak(call.pre.data) /\ call.pre.depth > 0
                      THEN Spaces(4 * call.pre.depth)
                      ELSE <<>>)
                  \o call.buf \o <<" ", " ", "\n">>

(***************************************************************************)
(* C6 (SpecMd): list_push(text) at depth d appends 4 * d spaces, '- ' and  *)
(* text when text is non-empty, leaves the buffer unchanged when text is   *)
(* empty, and leaves the depth at d + 1 in both cases.                     *)
(***************************************************************************)
C6_ListPush ==
    call.name = "list_push" =>
        /\ md.depth = call.pre.depth + 1
        /\ call.buf # <<>> =>
            md.data = call.pre.data \o Spaces(4 * call.pre.depth) \o <<"-", " ">> \o call.buf
        /\ call.buf = <<>> => md.data = call.pre.data

C6_Witness ==
    /\ call.name = "list_push"
    /\ call.pre.depth = 2
    /\ call.buf # <<>>
    /\ md.depth = 3

(***************************************************************************)
(* C2 (Spec): once the grouping loop is over, every identifier of the      *)
(* library is in exactly one category list, the one of the substring       *)
(* before its first '.', exactly once and paired with its blueprint, and   *)
(* bp_dict holds nothing else.                                             *)
(***************************************************************************)
C2_GroupingPartitions ==
    Grouped =>
        /\ \A i, j \in 1..Len(bp_dict) : i # j => bp_dict[i].key # bp_dict[j].key
        /\ \A b \in 1..Len(library) :
            \E p \in Flattened :
                /\ bp_dict[p[1]].value[p[2]] = <<library[b].id, library[b]>>
                /\ bp_dict[p[1]].key = CategoryOf(library[b].id)
                /\ \A q \in Flattened :
                    bp_dict[q[1]].value[q[2]][1] = library[b].id => q = p
        /\ Cardinality(Flattened) = Len(library)
        /\ {bp_dict[p[1]].value[p[2]][1] : p \in Flattened} = LibraryIds

C2_Witness ==
    /\ pc = "done"
    /\ \E i \in 1..Len(bp_dict) : Len(bp_dict[i].value) = 2

(***************************************************************************)
(* C3 (Spec): within a category the blueprint entries are emitted in       *)
(* non-decreasing order of identifier, and within a blueprint the          *)
(* attribute entries in non-decreasing order of attribute identifier.      *)
(***************************************************************************)
C3_EntriesSorted ==
    \A i, j \in 1..Len(emitted) :
        i < j =>
            /\ ( /\ emitted[i].kind = "blueprint"
                 /\ emitted[j].kind = "blueprint"
                 /\ \A k \in i..j : emitted[k].kind # "title" )
               => StrLeq(emitted[i].id, emitted[j].id)
            /\ ( /\ emitted[i].kind = "attribute"
                 /\ emitted[j].kind = "attribute"
                 /\ \A k \in i..j : emitted[k].kind # "blueprint" )
               => StrLeq(emitted[i].id, emitted[j].id)

C3_Witness ==
    /\ pc = "done"
    /\ \E b \in 1..Len(library) :
        /\ Len(library[b].attrs) = 2
        /\ StrLess(library[b].attrs[2].id, library[b].attrs[1].id)

(***************************************************************************)
(* C4 (Spec): when the provider cannot be reached or times out inside      *)
(* generate_pb_docs, main catches the fault, prints the connection         *)
(* diagnostic and ends the process with exit status 0.                     *)
(***************************************************************************)
C4_FaultExitsZero ==
    exception = "RuntimeError" =>
        /\ pc \in {"except", "exited"}
        /\ exit_status \in {<<>>, <<0>>}
        /\ pc = "exited" => exit_status = <<0>> /\ Printed(ConnectionDiagnostic)

C4_Witness ==
    /\ exception = "RuntimeError"
    /\ pc = "exited"
    /\ exit_status = <<0>>
    /\ Printed(ConnectionDiagnostic)

(***************************************************************************)
(* C7 (Spec): the category headings appear once each, category A before    *)
(* category B exactly when the smallest identifier of A is smaller than    *)
(* the smallest identifier of B.                                           *)
(***************************************************************************)
MinIdOf(cat) ==
    CHOOSE id \in LibraryIds :
        /\ CategoryOf(id) = cat
        /\ \A other \in LibraryIds : CategoryOf(other) = cat => StrLeq(id, other)

C7_CategoryOrder ==
    pc = "done" =>
        LET titles == EmittedOf("title") IN
        /\ {emitted[i].id : i \in titles} = {CategoryOf(id) : id \in LibraryIds}
        /\ \A i, j \in titles :
            /\ i # j => emitted[i].id # emitted[j].id
            /\ i < j <=> StrLess(MinIdOf(emitted[i].id), MinIdOf(emitted[j].id))

\* two headings that are not in the alphabetical order of their names
C7_Witness ==
    /\ pc = "done"
    /\ \E i, j \in EmittedOf("title") : i < j /\ StrLess(emitted[j].id, emitted[i].id)

(***************************************************************************)
(* C8 (Spec): the document holds, for every blueprint, under the heading   *)
(* '### <category>' of its category, an entry naming the blueprint and,    *)
(* for each attribute, one line with the id in fixed width, the type in    *)
(* italic parentheses and the modifiable marker iff it is modifiable; for  *)
(* vehicle.car (color: string) and walker.person (speed: float,            *)
(* modifiable) these are the sections of the example.                      *)
(***************************************************************************)
HeadingStart == <<"\n", "#", "#", "#", " ">>

EntryStart == <<"-", " ", "*", "*", "<", "f", "o", "n", "t", " ", "c", "o", "l", "o", "r", "=", "\"", "#", "4", "9", "8", "e", "f", "c", "\"", ">">>

AttributeStart == <<" ", " ", " ", " ", " ", " ", " ", " ", "-", " ", GRAVE>>

HeadingOf(cat) == HeadingStart \o cat \o <<"\n">>

EntryOf(id) ==
    EntryStart \o id \o <<"<", "/", "f", "o", "n", "t", ">", "*", "*", " ", " ", "\n", " ", " ", " ", " ", "-", " ", "*", "*", "A", "t", "t", "r", "i", "b", "u", "t", "e", "s", ":", "*", "*", "\n">>

AttributeLineOf(attr) ==
    AttributeStart \o attr.id \o <<GRAVE, " ", "(", "_">> \o attr.type \o <<"_", ")">>
    \o (IF attr.is_modifiable THEN <<" ", "<", "s", "u", "b", ">", "_", "-", " ", "M", "o", "d", "i", "f", "i", "a", "b", "l", "e", "_", "<", "/", "s", "u", "b", ">">> ELSE <<>>)
    \o <<"\n">>

\* an entry at e lies in the section of the heading at h
InSection(h, e) ==
    /\ h < e
    /\ \A k \in Positions(HeadingStart, docs) : ~(h < k /\ k < e)

\* where the block of the entry at e ends: the next entry or heading
BlockEnd(e) ==
    LET later == {k \in Positions(EntryStart, docs) \cup Positions(HeadingStart, docs) : k > e}
    IN  IF later = {} THEN Len(docs) + 1
        ELSE CHOOSE k \in later : \A l \in later : k <= l

ExampleLibrary ==
    <<[id |-> vehicle_car, attrs |-> <<color_string>>],
      [id |-> walker_person, attrs |-> <<speed_float>>]>>

VehicleSection ==
    <<
    "\n", "#", "#", "#", " ", "v", "e", "h", "i", "c", "l", "e", "\n", "-", " ", "*", "*", "<",
    "f", "o", "n", "t", " ", "c", "o", "l", "o", "r", "=", "\"", "#", "4", "9", "8", "e", "f",
    "c", "\"", ">", "v", "e", "h", "i", "c", "l", "e", ".", "c", "a", "r", "<", "/", "f", "o",
    "n", "t", ">", "*", "*", " ", " ", "\n", " ", " ", " ", " ", "-", " ", "*", "*", "A", "t",
    "t", "r", "i", "b", "u", "t", "e", "s", ":", "*", "*", "\n", " ", " ", " ", " ", " ", " ",
    " ", " ", "-", " ", GRAVE, "c", "o", "l", "o", "r", GRAVE, " ", "(", "_", "s", "t", "r",
    "i", "n", "g", "_", ")", "\n"
    >>

WalkerSection ==
    <<
    "\n", "#", "#", "#", " ", "w", "a", "l", "k", "e", "r", "\n", "-", " ", "*", "*", "<", "f",
    "o", "n", "t", " ", "c", "o", "l", "o", "r", "=", "\"", "#", "4", "9", "8", "e", "f", "c",
    "\"", ">", "w", "a", "l", "k", "e", "r", ".", "p", "e", "r", "s", "o", "n", "<", "/", "f",
    "o", "n", "t", ">", "*", "*", " ", " ", "\n", " ", " ", " ", " ", "-", " ", "*", "*", "A",
    "t", "t", "r", "i", "b", "u", "t", "e", "s", ":", "*", "*", "\n", " ", " ", " ", " ", " ",
    " ", " ", " ", "-", " ", GRAVE, "s", "p", "e", "e", "d", GRAVE, " ", "(", "_", "f", "l",
    "o", "a", "t", "_", ")", " ", "<", "s", "u", "b", ">", "_", "-", " ", "M", "o", "d", "i",
    "f", "i", "a", "b", "l", "e", "_", "<", "/", "s", "u", "b", ">", "\n"
    >>

C8_DocumentContents ==
    pc = "done" =>
        /\ \A b \in 1..Len(library) :
            \E h \in Positions(HeadingOf(CategoryOf(library[b].id)), docs),
               e \in Positions(EntryOf(library[b].id), docs) :
                /\ docs[e - 1] = "\n"
                /\ InSection(h, e)
                /\ \A a \in 1..Len(library[b].attrs) :
                    \E p \in Positions(AttributeLineOf(library[b].attrs[a]), docs) :
                        /\ docs[p - 1] = "\n"
                        /\ e < p
                        /\ p < BlockEnd(e)
                /\ Cardinality({p \in Positions(AttributeStart, docs) :
                                    e < p /\ p < BlockEnd(e)})
                   = Len(library[b].attrs)
        /\ library = ExampleLibrary =>
            /\ Positions(VehicleSection, docs) # {}
            /\ Positions(WalkerSection, docs) # {}

C8_Witness ==
    /\ pc = "done"
    /\ library = ExampleLibrary
    /\ file = docs

(***************************************************************************)
(* C9 (Spec): during the assembly every list-open is matched by a          *)
(* list-close: the depth is 0 at each category heading and each blueprint  *)
(* entry, 1 at the 'Attributes:' label, 2 at each attribute entry and 0    *)
(* when the document is returned.                                          *)
(***************************************************************************)
C9_DepthBalanced ==
    /\ \A i \in 1..Len(emitted) :
        /\ emitted[i].kind \in {"title", "blueprint", "return"} => emitted[i].depth = 0
        /\ emitted[i].kind = "label" => emitted[i].depth = 1
        /\ emitted[i].kind = "attribute" => emitted[i].depth = 2
    /\ pc \in {"category", "blueprint"} => md.depth = 0
    /\ pc = "attribute" => md.depth = 2
    /\ pc \in {"write", "print_done", "done"} => md.depth = 0

C9_Witness ==
    /\ pc = "done"
    /\ Cardinality(EmittedOf("title")) = 2
    /\ EmittedOf("attribute") # {}
    /\ emitted[Len(emitted)] = [kind |-> "return", id |-> <<>>, depth |-> 0]

(***************************************************************************)
(* C10 (Spec): the output file is written and 'Done!' printed only after   *)
(* generate_pb_docs has returned the complete document; on the             *)
(* connection-failure path the file is left as it was and 'Done!' is       *)
(* never printed.                                                          *)
(***************************************************************************)
Returned ==
    /\ emitted # <<>>
    /\ emitted[Len(emitted)].kind = "return"
    /\ docs = md.data
    /\ items = <<>>
    /\ Cardinality(EmittedOf("blueprint")) = Len(library)

C10_WriteOnlyAfterReturn ==
    /\ file # OldFile => Returned /\ file = docs /\ pc \in {"print_done", "done"}
    /\ Printed("Done!") => Returned /\ file = docs /\ pc = "done"
    /\ exception = "RuntimeError" => file = OldFile /\ ~Printed("Done!")

C10_Witness ==
    /\ exception = "RuntimeError"
    /\ pc = "exited"
    /\ blueprints # <<>>
    /\ file = OldFile
    /\ ~Printed("Done!")

====
